---- MODULE Spec2Model ----
(***************************************************************************)
(* A model of rejex.mjs (the revision that returns {is_match, remaining}   *)
(* objects, src/rejex.mjs lines 165-330): the four expression classes,     *)
(* their match methods and regexMatch.                                     *)
(*                                                                         *)
(* A JavaScript string is modelled as the sequence of its characters, an   *)
(* expression object as a record carrying its class in the field kind and  *)
(* the fields its constructor sets.  A call of match either returns an     *)
(* object {is_match, remaining} or never returns (the while loop of        *)
(* RepetitionExpr.match has no other exit than a rejecting inner match);   *)
(* the record field returns tells the two apart.                           *)
(***************************************************************************)
EXTENDS Naturals, Sequences, FiniteSets

VARIABLES expr, str, pc, m, result, stack

vars == <<expr, str, pc, m, result, stack>>

\* Largest number of nodes of an expression tree drawn in Init.
MaxNodes == 5
\* Longest input string drawn in Init.
MaxLen == 3
\* Longest input string over the nine-letter alphabet of the end-to-end test.
MaxTestLen == 4

\* The characters expressions and inputs are drawn from.
Alphabet == {"h", "e"}

-----------------------------------------------------------------------------
(* Constructors *)

CharMatchExpr(chr) == [kind |-> "CharMatch", chr |-> chr]

ConcatExpr(lhs, rhs) == [kind |-> "Concat", lhs |-> lhs, rhs |-> rhs]

AlternationExpr(lhs, rhs) == [kind |-> "Alternation", lhs |-> lhs, rhs |-> rhs]

RepetitionExpr(e) == [kind |-> "Repetition", expr |-> e]

\* All expression trees of exactly n nodes with leaves over Alphabet.
RECURSIVE ExprsOfSize(_)
ExprsOfSize(n) ==
  IF n = 1 THEN {CharMatchExpr(c) : c \in Alphabet}
  ELSE {RepetitionExpr(e) : e \in ExprsOfSize(n - 1)}
       \cup UNION {
              {ConcatExpr(l, r) : l \in ExprsOfSize(i), r \in ExprsOfSize(n - 1 - i)}
              \cup {AlternationExpr(l, r) : l \in ExprsOfSize(i), r \in ExprsOfSize(n - 1 - i)}
              : i \in 1..(n - 2)}

Exprs == UNION {ExprsOfSize(n) : n \in 1..MaxNodes}

\* All sequences over S of length at most n.
SeqsUpTo(S, n) == UNION {[1..k -> S] : k \in 0..n}

Strings == SeqsUpTo(Alphabet, MaxLen)

-----------------------------------------------------------------------------
(* The value a match call returns, and the outcome of a call that never    *)
(* returns.                                                                *)

MatchResult(is_match, remaining) ==
  [returns |-> TRUE, is_match |-> is_match, remaining |-> remaining]

NoReturn == [returns |-> FALSE, is_match |-> FALSE, remaining |-> <<>>]

\* What destructuring [head, ...tail] binds head to when tokens is empty.
undefined == "undefined"

\* str.split(''): the array of the one-character strings of str.
split(s) == [i \in 1..Len(s) |-> s[i]]

RECURSIVE match(_, _)

\* CharMatchExpr.match
CharMatchExpr_match(this, tokens) ==
  LET head == IF tokens = <<>> THEN undefined ELSE Head(tokens)
      tail == IF tokens = <<>> THEN <<>> ELSE Tail(tokens)
  IN IF head # this.chr THEN MatchResult(FALSE, tokens)
     ELSE MatchResult(TRUE, tail)

\* ConcatExpr.match as it would be if a failed match handed back the tokens the
\* right side was left with instead of the tokens it was called with.
ConcatExpr_match_KeepsConsumed(this, tokens) ==
  LET lhs == match(this.lhs, tokens)
  IN IF ~lhs.returns THEN NoReturn
     ELSE LET rhs == match(this.rhs, lhs.remaining)
          IN IF ~rhs.returns THEN NoReturn
             ELSE IF ~lhs.is_match \/ ~rhs.is_match
                  THEN MatchResult(FALSE, rhs.remaining)
                  ELSE MatchResult(TRUE, rhs.remaining)

\* ConcatExpr.match: rhs.match is called whether or not lhs matched.
ConcatExpr_match(this, tokens) ==
  LET lhs == match(this.lhs, tokens)
  IN IF ~lhs.returns THEN NoReturn
     ELSE LET rhs == match(this.rhs, lhs.remaining)
          IN IF ~rhs.returns THEN NoReturn
             ELSE IF ~lhs.is_match \/ ~rhs.is_match
                  THEN MatchResult(FALSE, tokens)
                  ELSE MatchResult(TRUE, rhs.remaining)

\* AlternationExpr.match as it would be if it preferred the left side whenever
\* that matched, whatever the right side consumed.
AlternationExpr_match_LeftFirst(this, tokens) ==
  LET lhs == match(this.lhs, tokens)
  IN IF ~lhs.returns THEN NoReturn
     ELSE LET rhs == match(this.rhs, tokens)
          IN IF ~rhs.returns THEN NoReturn
             ELSE IF lhs.is_match THEN MatchResult(TRUE, lhs.remaining)
             ELSE IF rhs.is_match THEN MatchResult(TRUE, rhs.remaining)
             ELSE MatchResult(FALSE, tokens)

\* AlternationExpr.match: both sides are called on the same tokens.
AlternationExpr_match(this, tokens) ==
  LET lhs == match(this.lhs, tokens)
  IN IF ~lhs.returns THEN NoReturn
     ELSE LET rhs == match(this.rhs, tokens)
          IN IF ~rhs.returns THEN NoReturn
             ELSE IF lhs.is_match \/ rhs.is_match
                  THEN LET shorter_remainder ==
                             IF Len(lhs.remaining) > Len(rhs.remaining)
                             THEN rhs.remaining
                             ELSE lhs.remaining
                       IN MatchResult(TRUE, shorter_remainder)
                  ELSE MatchResult(FALSE, tokens)

\* The loop of RepetitionExpr.match as it would be if the method returned cur,
\* the object of the rejecting inner match, as it is.
RECURSIVE RepetitionLoop_ReturnsCur(_, _, _)
RepetitionLoop_ReturnsCur(this, cur, seen) ==
  IF ~cur.is_match THEN cur
  ELSE IF cur \in seen THEN NoReturn
  ELSE LET nxt == match(this.expr, cur.remaining)
       IN IF ~nxt.returns THEN NoReturn
          ELSE RepetitionLoop_ReturnsCur(this, nxt, seen \cup {cur})

\* The while loop of RepetitionExpr.match, entered with the loop variable cur.
\* The loop body is a function of cur alone, so the loop never exits once cur
\* takes a value it had before; seen holds the values cur had at the earlier
\* loop tests.
RECURSIVE RepetitionLoop(_, _, _)
RepetitionLoop(this, cur, seen) ==
  IF ~cur.is_match THEN MatchResult(TRUE, cur.remaining)
  ELSE IF cur \in seen THEN NoReturn
  ELSE LET nxt == match(this.expr, cur.remaining)
       IN IF ~nxt.returns THEN NoReturn
          ELSE RepetitionLoop(this, nxt, seen \cup {cur})

\* RepetitionExpr.match
RepetitionExpr_match(this, tokens) ==
  RepetitionLoop(this, MatchResult(TRUE, tokens), {})

\* expr.match(tokens): dispatch on the class of the receiver.
match(this, tokens) ==
  CASE this.kind = "CharMatch" -> CharMatchExpr_match(this, tokens)
    [] this.kind = "Concat" -> ConcatExpr_match(this, tokens)
    [] this.kind = "Alternation" -> AlternationExpr_match(this, tokens)
    [] this.kind = "Repetition" -> RepetitionExpr_match(this, tokens)

\* regexMatch's return as it would be without the check of the remainder.
Anchor_Unanchored(mr) == mr.is_match

\* The value regexMatch returns from the object expr.match returned.
Anchor(mr) ==
  IF Len(mr.remaining) # 0 THEN FALSE ELSE mr.is_match

\* regexMatch(str, expr): returns is FALSE when the call never returns.
regexMatch(s, e) ==
  LET mr == match(e, split(s))
  IN IF ~mr.returns THEN [returns |-> FALSE, value |-> FALSE]
     ELSE [returns |-> TRUE, value |-> Anchor(mr)]

-----------------------------------------------------------------------------
(* One call of regexMatch(str, expr), in two steps: the call of expr.match *)
(* and the check of the remainder.                                         *)

Init ==
  /\ expr \in Exprs
  /\ str \in Strings
  /\ pc = "start"
  /\ m = NoReturn
  /\ result = FALSE
  /\ stack = <<>>

\* const m = expr.match(str.split('')); pc is "hung" when the call never returns.
CallMatch ==
  /\ pc = "start"
  /\ m' = match(expr, split(str))
  /\ pc' = IF m'.returns THEN "matched" ELSE "hung"
  /\ UNCHANGED <<expr, str, result, stack>>

\* if (m.remaining.length !== 0) return false; return m.is_match
Return ==
  /\ pc = "matched"
  /\ result' = Anchor(m)
  /\ pc' = "done"
  /\ UNCHANGED <<expr, str, m, stack>>

Next == CallMatch \/ Return

Spec == Init /\ [][Next]_vars

-----------------------------------------------------------------------------
(* The same call of regexMatch(str, expr), statement by statement.  stack  *)
(* is the call stack of the match methods, innermost call last.  A frame   *)
(* holds the receiver, the argument, the locals lhs and rhs (ConcatExpr    *)
(* and AlternationExpr) or cur (RepetitionExpr), and in the field at the   *)
(* statement the call is to execute next.                                  *)

Frame(this, toks) ==
  [this |-> this, tokens |-> toks,
   at |-> IF this.kind = "Repetition" THEN "test" ELSE "lhs",
   lhs |-> NoReturn, rhs |-> NoReturn,
   cur |-> MatchResult(TRUE, toks)]

Top == stack[Len(stack)]

Running(kind, at) ==
  /\ pc = "running"
  /\ stack # <<>>
  /\ Top.this.kind = kind
  /\ Top.at = at

\* The call stack after the callee f is pushed.
Push(f) == stack' = Append(stack, f)

\* The innermost call returns value: its frame is popped and value is bound
\* where the caller made the call, or to m when the caller is regexMatch.
ReturnValue(value) ==
  LET n == Len(stack)
  IN IF n = 1
     THEN /\ stack' = <<>>
          /\ m' = value
          /\ pc' = "matched"
     ELSE LET caller == stack[n - 1]
              resumed ==
                CASE caller.at = "lhs" -> [caller EXCEPT !.lhs = value, !.at = "rhs"]
                  [] caller.at = "rhs" -> [caller EXCEPT !.rhs = value, !.at = "ret"]
                  [] caller.at = "test" -> [caller EXCEPT !.cur = value]
          IN /\ stack' = [SubSeq(stack, 1, n - 1) EXCEPT ![n - 1] = resumed]
             /\ UNCHANGED <<m, pc>>

\* const m = expr.match(str.split('')): the call is entered.
Start ==
  /\ pc = "start"
  /\ stack' = <<Frame(expr, split(str))>>
  /\ pc' = "running"
  /\ UNCHANGED <<expr, str, m, result>>

\* CharMatchExpr.match runs to its return.
CharMatchStep ==
  /\ Running("CharMatch", "lhs")
  /\ ReturnValue(CharMatchExpr_match(Top.this, Top.tokens))
  /\ UNCHANGED <<expr, str, result>>

\* const lhs = this.lhs.match(tokens)
ConcatCallLhs ==
  /\ Running("Concat", "lhs")
  /\ Push(Frame(Top.this.lhs, Top.tokens))
  /\ UNCHANGED <<expr, str, pc, m, result>>

\* const rhs = this.rhs.match(lhs.remaining)
ConcatCallRhs ==
  /\ Running("Concat", "rhs")
  /\ Push(Frame(Top.this.rhs, Top.lhs.remaining))
  /\ UNCHANGED <<expr, str, pc, m, result>>

\* The two return statements of ConcatExpr.match.
ConcatReturn ==
  /\ Running("Concat", "ret")
  /\ ReturnValue(IF ~Top.lhs.is_match \/ ~Top.rhs.is_match
                 THEN MatchResult(FALSE, Top.tokens)
                 ELSE MatchResult(TRUE, Top.rhs.remaining))
  /\ UNCHANGED <<expr, str, result>>

\* const lhs = this.lhs.match(tokens)
AlternationCallLhs ==
  /\ Running("Alternation", "lhs")
  /\ Push(Frame(Top.this.lhs, Top.tokens))
  /\ UNCHANGED <<expr, str, pc, m, result>>

\* const rhs = this.rhs.match(tokens)
AlternationCallRhs ==
  /\ Running("Alternation", "rhs")
  /\ Push(Frame(Top.this.rhs, Top.tokens))
  /\ UNCHANGED <<expr, str, pc, m, result>>

\* The if statement and the two return statements of AlternationExpr.match.
AlternationReturn ==
  /\ Running("Alternation", "ret")
  /\ ReturnValue(IF Top.lhs.is_match \/ Top.rhs.is_match
                 THEN MatchResult(TRUE,
                        IF Len(Top.lhs.remaining) > Len(Top.rhs.remaining)
                        THEN Top.rhs.remaining
                        ELSE Top.lhs.remaining)
                 ELSE MatchResult(FALSE, Top.tokens))
  /\ UNCHANGED <<expr, str, result>>

\* while (cur.is_match) holds: cur = this.expr.match(cur.remaining)
RepetitionCall ==
  /\ Running("Repetition", "test")
  /\ Top.cur.is_match
  /\ Push(Frame(Top.this.expr, Top.cur.remaining))
  /\ UNCHANGED <<expr, str, pc, m, result>>

\* while (cur.is_match) fails: return {is_match: true, remaining: cur.remaining}
RepetitionReturn ==
  /\ Running("Repetition", "test")
  /\ ~Top.cur.is_match
  /\ ReturnValue(MatchResult(TRUE, Top.cur.remaining))
  /\ UNCHANGED <<expr, str, result>>

NextRun ==
  \/ Start
  \/ CharMatchStep
  \/ ConcatCallLhs
  \/ ConcatCallRhs
  \/ ConcatReturn
  \/ AlternationCallLhs
  \/ AlternationCallRhs
  \/ AlternationReturn
  \/ RepetitionCall
  \/ RepetitionReturn
  \/ Return

\* The interpreter runs the call without pause until regexMatch returns.
SpecRun == Init /\ [][NextRun]_vars /\ WF_vars(NextRun)

-----------------------------------------------------------------------------
(* The test 'h[e3]l*o|wo[r4]ld': its tree and its inputs. *)

TestAlphabet == {"h", "e", "3", "l", "o", "w", "r", "4", "d"}

TestExpr ==
  AlternationExpr(
    ConcatExpr(
      ConcatExpr(
        ConcatExpr(
          CharMatchExpr("h"),
          AlternationExpr(CharMatchExpr("e"), CharMatchExpr("3"))),
        RepetitionExpr(CharMatchExpr("l"))),
      CharMatchExpr("o")),
    ConcatExpr(
      ConcatExpr(
        ConcatExpr(CharMatchExpr("w"), CharMatchExpr("o")),
        AlternationExpr(CharMatchExpr("r"), CharMatchExpr("4"))),
      ConcatExpr(CharMatchExpr("l"), CharMatchExpr("d"))))

\* The inputs of the test with the value the test expects.
TestCases ==
  { << <<"h", "e", "l", "l", "o">>, TRUE >>,
    << <<"h", "e", "l", "l", "l", "l", "l", "l", "o">>, TRUE >>,
    << <<"h", "e", "o">>, TRUE >>,
    << <<"h", "3", "o">>, TRUE >>,
    << <<"h", "3", "l", "l", "o">>, TRUE >>,
    << <<"w", "o", "r", "l", "d">>, TRUE >>,
    << <<"w", "o", "4", "l", "d">>, TRUE >>,
    << <<"w", "o", "r", "l">>, FALSE >>,
    << <<"h", "e", "l", "l", "l", "l", "l", "l">>, FALSE >> }

TestStrings == SeqsUpTo(TestAlphabet, MaxTestLen) \cup {t[1] : t \in TestCases}

InitTest ==
  /\ expr = TestExpr
  /\ str \in TestStrings
  /\ pc = "start"
  /\ m = NoReturn
  /\ result = FALSE
  /\ stack = <<>>

SpecTest == InitTest /\ [][Next]_vars

-----------------------------------------------------------------------------
(* Vocabulary of the properties *)

\* The input regexMatch hands to expr.match.
input == split(str)

\* The call of expr.match has been made (it returned, or it never will).
Called == pc \in {"matched", "done", "hung"}

\* The call of expr.match has returned m.
Returned == pc \in {"matched", "done"}

\* r is t with a prefix removed.
IsSuffix(r, t) == \E k \in 0..Len(t) : r = SubSeq(t, k + 1, Len(t))

\* regexMatch(s, e) returns true.
IsTrue(s, e) == LET r == regexMatch(s, e) IN r.returns /\ r.value

\* s belongs to the regular language denoted by e: CharMatch(c) is {c}, Concat
\* is concatenation, Alternation is union and Repetition is the Kleene star.
RECURSIVE InLanguage(_, _)
InLanguage(s, e) ==
  CASE e.kind = "CharMatch" -> s = <<e.chr>>
    [] e.kind = "Concat" ->
         \E k \in 0..Len(s) : /\ InLanguage(SubSeq(s, 1, k), e.lhs)
                              /\ InLanguage(SubSeq(s, k + 1, Len(s)), e.rhs)
    [] e.kind = "Alternation" -> InLanguage(s, e.lhs) \/ InLanguage(s, e.rhs)
    [] e.kind = "Repetition" ->
         \/ s = <<>>
         \/ \E k \in 1..Len(s) : /\ InLanguage(SubSeq(s, 1, k), e.expr)
                                 /\ InLanguage(SubSeq(s, k + 1, Len(s)), e)

-----------------------------------------------------------------------------
(* C1: whenever expr.match(input) returns, remaining is a suffix of input *)
(* if is_match is true, and is input unchanged if is_match is false.       *)
RemainderContract ==
  Returned => IF m.is_match THEN IsSuffix(m.remaining, input)
              ELSE m.remaining = input

\* A nested tree accepted after consuming some of the input but not all of it.
RemainderContractWitness ==
  /\ Returned
  /\ expr.kind = "Concat"
  /\ expr.lhs.kind = "Repetition"
  /\ m.is_match
  /\ Len(m.remaining) > 0
  /\ Len(m.remaining) < Len(input)

(* C2: regexMatch(str, expr) returns true if and only if str belongs to the *)
(* regular language denoted by expr (stated of the calls that return).      *)
CompleteEngine ==
  pc = "done" => (result <=> InLanguage(str, expr))

(* C4: regexMatch(s, Alternation(X,Y)) is true if and only if              *)
(* regexMatch(s, X) is true or regexMatch(s, Y) is true.                   *)
AlternationIsUnion ==
  (Called /\ expr.kind = "Alternation") =>
     ((pc = "done" /\ result) <=> (IsTrue(str, expr.lhs) \/ IsTrue(str, expr.rhs)))

\* The same, of the calls in which both operands return.
AlternationIsUnionWhenReturning ==
  (pc = "done" /\ expr.kind = "Alternation") =>
     (result <=> (IsTrue(str, expr.lhs) \/ IsTrue(str, expr.rhs)))

(* C5: regexMatch returns true if and only if expr.match returned is_match *)
(* true and an empty remainder; an accepted match that leaves input is     *)
(* reported as false, and regexMatch returns exactly when expr.match does. *)
FullStringAnchoring ==
  /\ pc = "done" => (result <=> (m.returns /\ m.is_match /\ m.remaining = <<>>))
  /\ Called => (regexMatch(str, expr).returns <=> m.returns)
  /\ Called => (IsTrue(str, expr) <=> (m.returns /\ m.is_match /\ m.remaining = <<>>))

\* An accepted match with leftover input, reported as false.
FullStringAnchoringWitness ==
  /\ pc = "done"
  /\ m.is_match
  /\ m.remaining # <<>>
  /\ result = FALSE

(* C7: regexMatch("", Repetition(X)) is true for any X, and                *)
(* regexMatch(s, Repetition(Repetition(X))) returns the same result as     *)
(* regexMatch(s, Repetition(X)).                                           *)
RepetitionIdempotent ==
  (Called /\ expr.kind = "Repetition") =>
     /\ str = <<>> => (pc = "done" /\ result)
     /\ regexMatch(str, RepetitionExpr(expr)) = regexMatch(str, expr)

(* C8: whenever AlternationExpr.match(input) accepts, its remainder is the *)
(* shortest remainder among the branches that accepted on the same input.  *)
AlternationShortestRemainder ==
  (Returned /\ expr.kind = "Alternation" /\ m.is_match) =>
     LET accepted == {b \in {match(expr.lhs, input), match(expr.rhs, input)} :
                        b.returns /\ b.is_match}
     IN /\ \E b \in accepted : m.remaining = b.remaining
        /\ \A b \in accepted : Len(m.remaining) <= Len(b.remaining)

\* Both branches accept and the right one consumes more.
AlternationShortestRemainderWitness ==
  /\ Returned
  /\ expr.kind = "Alternation"
  /\ m.is_match
  /\ LET l == match(expr.lhs, input)
         r == match(expr.rhs, input)
     IN /\ l.is_match /\ r.is_match
        /\ Len(r.remaining) < Len(l.remaining)
        /\ m.remaining = r.remaining

(* C9: Concat(X,Y).match(input) accepts if and only if X.match(input)     *)
(* accepts with remainder r and Y.match(r) accepts, and then returns Y's    *)
(* remainder; otherwise it rejects with the original input.                *)
ConcatComposition ==
  (Called /\ expr.kind = "Concat") =>
     LET x == match(expr.lhs, input)
         y == IF x.returns THEN match(expr.rhs, x.remaining) ELSE NoReturn
     IN IF x.returns /\ x.is_match /\ y.returns /\ y.is_match
        THEN m = MatchResult(TRUE, y.remaining)
        ELSE m = MatchResult(FALSE, input)

\* The same, of the calls that return.
ConcatCompositionWhenReturning ==
  (Returned /\ expr.kind = "Concat") =>
     LET x == match(expr.lhs, input)
         y == match(expr.rhs, x.remaining)
     IN /\ IF x.is_match /\ y.is_match
           THEN m = MatchResult(TRUE, y.remaining)
           ELSE m = MatchResult(FALSE, input)
        /\ \A c \in Alphabet :
             (expr = ConcatExpr(RepetitionExpr(CharMatchExpr(c)), CharMatchExpr(c))
              /\ input # <<>> /\ \A i \in 1..Len(input) : input[i] = c)
             => ~m.is_match

\* The remainder after the last of the consecutive accepting inner matches,
\* at most n of them, applied from t.
RECURSIVE LastAccepted(_, _, _)
LastAccepted(e, t, n) ==
  LET r == match(e, t)
  IN IF n = 0 \/ ~r.returns \/ ~r.is_match THEN t
     ELSE LastAccepted(e, r.remaining, n - 1)

(* C10: RepetitionExpr.match always returns is_match true, with the         *)
(* remainder of the last consecutive successful inner match; hence          *)
(* regexMatch(s, Repetition(CharMatch(c))) is true iff every symbol of s is *)
(* c, and likewise for Repetition(Alternation(CharMatch(a),CharMatch(b))).  *)
RepetitionAlwaysAccepts ==
  (Called /\ expr.kind = "Repetition") =>
     /\ m.returns
     /\ m.is_match
     /\ m.remaining = LastAccepted(expr.expr, input, Len(input) + 1)
     /\ expr.expr.kind = "CharMatch" =>
          ((pc = "done" /\ result) <=> \A i \in 1..Len(str) : str[i] = expr.expr.chr)

\* The same, of the calls that return.
RepetitionAcceptsWhenReturning ==
  (Returned /\ expr.kind = "Repetition") =>
     /\ m.is_match
     /\ m.remaining = LastAccepted(expr.expr, input, Len(input) + 1)
     /\ expr.expr.kind = "CharMatch" =>
          (Anchor(m) <=> \A i \in 1..Len(str) : str[i] = expr.expr.chr)
     /\ (expr.expr.kind = "Alternation" /\ expr.expr.lhs.kind = "CharMatch"
         /\ expr.expr.rhs.kind = "CharMatch") =>
          (Anchor(m) <=> \A i \in 1..Len(str) :
                            str[i] \in {expr.expr.lhs.chr, expr.expr.rhs.chr})

-----------------------------------------------------------------------------
(* The two descriptions of the call agree. *)

\* What the statement-by-statement run returns is what match computes.
RunAgrees ==
  /\ Returned => m = match(expr, input)
  /\ pc = "done" => regexMatch(str, expr) = [returns |-> TRUE, value |-> result]

\* A call that match computes to return does return in the run.
RunReturns == match(expr, input).returns => <>(pc = "done")

\* A call that match computes never to return never returns in the run.
RunHangs == ~match(expr, input).returns => [](pc # "done")

(* C3: RepetitionExpr.match terminates on every finite input; in particular *)
(* regexMatch(s, Repetition(Alternation(CharMatch('h'),                     *)
(* Repetition(CharMatch('e'))))) returns for every finite s.                *)
NonProgressTermination ==
  expr = RepetitionExpr(AlternationExpr(CharMatchExpr("h"),
                                        RepetitionExpr(CharMatchExpr("e"))))
    => <>(pc = "done")

\* s is h(e|3)l^n o for some n >= 0, or wo(r|4)ld.
InTestLanguage(s) ==
  \/ /\ Len(s) >= 3
     /\ s[1] = "h"
     /\ s[2] \in {"e", "3"}
     /\ \A i \in 3..(Len(s) - 1) : s[i] = "l"
     /\ s[Len(s)] = "o"
  \/ /\ Len(s) = 5
     /\ s[1] = "w" /\ s[2] = "o"
     /\ s[3] \in {"r", "4"}
     /\ s[4] = "l" /\ s[5] = "d"

(* C6: for the tree of the test h[e3]l*o|wo[r4]ld, regexMatch(s, tree)     *)
(* returns, and returns true exactly for the strings h(e|3)l^n o and        *)
(* wo(r|4)ld; the inputs of the test get the values the test expects.       *)
EndToEnd ==
  /\ pc # "hung"
  /\ pc = "done" =>
       /\ result <=> InTestLanguage(str)
       /\ \A t \in TestCases : str = t[1] => result = t[2]

\* "hellllllo" has been accepted.
EndToEndWitness ==
  /\ pc = "done"
  /\ str = <<"h", "e", "l", "l", "l", "l", "l", "l", "o">>
  /\ result = TRUE

====
